---- MODULE Spec2Model ----
(***************************************************************************)
(* A model of enrichM's annotation pipeline (src/enrichm/annotate.py).    *)
(*                                                                         *)
(*   SpecCluster  Annotate.parse_cluster_results, one step per input line  *)
(*   SpecDo       Annotate.do, one step per stage of the pipeline          *)
(*   SpecDiamond  Annotate._diamond_search, the command line it builds     *)
(*   SpecRerun    parse_cluster_results called twice on the same file      *)
(*   SpecHmm      Annotate._hmm_search, the command line it builds         *)
(*   SpecLf       Parser.parse_genome_and_annotation_file_lf               *)
(*   SpecMatrix   Parser.parse_genome_and_annotation_file_matrix           *)
(*   SpecMetadata Parser.parse_metadata_matrix                             *)
(*                                                                         *)
(* Text is modelled by what the code's split/strip calls see of it: a line *)
(* is the sequence of its tab-separated fields, and a field is the         *)
(* sequence of its '~'-separated parts.  "rep1\tG1~p1" is                  *)
(* << <<"rep1">>, <<"G1", "p1">> >>, and an empty field is <<"">>.         *)
(***************************************************************************)
EXTENDS Integers, Sequences, FiniteSets, TLC

VARIABLES
    \* ---- parse_cluster_results ----
    lines,                  \* the cluster file, a sequence of raw lines
    pos,                    \* index of the next line the for loop reads
    counter,                \* local counter
    previous_cluster_name,  \* local previous_cluster_name (None is <<>>)
    cluster_ids,            \* local cluster_ids
    add_cluster_calls,      \* the add_cluster calls made, <<genome, sequence, id>>
    out_io,                 \* rows written to hypothetical_annotations.tsv
    pc,                     \* "loop", "embed", "returned", "raised"
    exc,                    \* type of the exception that left the function, or "None"
    exc_line,               \* the line contents carried by that exception's message
    run,                    \* which call of parse_cluster_results this is
    first_run,              \* the locals the first call ended with
    \* ---- do ----
    enabled,                \* self.hypothetical, self.ko, self.pfam, self.tigrfam
    genomes_list,           \* names of the Genome objects, in list order
    do_pc,                  \* position in Annotate.do
    events,                 \* calls on the genomes and matrix generator, in order
    \* ---- _diamond_search ----
    thresholds,             \* self.evalue, self.bit, self.id, self.aln_query, self.aln_reference
    cmd,                    \* options appended to the diamond command, in order
    dpc,                    \* "evalue", ..., "call", "called"
    \* ---- _hmm_search ----
    hmm_cmd,                \* options appended to the hmmsearch command, in order
    hmm_log,                \* messages given to logging.warning
    hpc,                    \* "evalue", "bit", "id", "call", "called"
    \* ---- Parser ----
    p_lines,                \* the lines of the file being parsed (after the header)
    p_header,               \* the first line of a matrix file
    p_pos,                  \* index of the next line the for loop reads
    p_pc,                   \* "header", "loop", "returned", "raised"
    p_exc,                  \* type of the exception that left the parser, or "None"
    p_exc_line,             \* the line contents carried by that exception's message
    headers,                \* local headers of the matrix parser
    genome_to_annotation_sets,  \* local dict of the lf and matrix parsers
    cols_to_rows,           \* local dict of parse_metadata_matrix
    nr_values,              \* local set of parse_metadata_matrix
    attribute_dict          \* local dict of parse_metadata_matrix

clusterVars == <<lines, pos, counter, previous_cluster_name, cluster_ids,
                 add_cluster_calls, out_io, pc, exc, exc_line, run, first_run>>
doVars      == <<enabled, genomes_list, do_pc, events>>
diamondVars == <<thresholds, cmd, dpc>>
hmmVars     == <<hmm_cmd, hmm_log, hpc>>
parserVars  == <<p_lines, p_header, p_pos, p_pc, p_exc, p_exc_line, headers,
                 genome_to_annotation_sets, cols_to_rows, nr_values, attribute_dict>>
vars        == <<clusterVars, doVars, diamondVars, hmmVars, parserVars>>

(***************************************************************************)
(* Bounds and input alphabets                                              *)
(***************************************************************************)
MaxLines == 3

GenomeNames  == {"G1", "G2"}          \* genomes in genomes_list
UnknownNames == {"GX"}                \* a genome id no Genome object has
SequenceIds  == {"p1", "p2"}
ClusterKeys  == {<<"rep1">>, <<"rep2">>}

NoneValue == <<>>                     \* Python's None for previous_cluster_name
EmptyField == <<"">>

WellFormedLines ==
    { <<k, <<g, s>>>> : k \in ClusterKeys,
                        g \in GenomeNames \cup UnknownNames,
                        s \in SequenceIds }

OddLines ==
    { << <<"rep1">> >>,                                   \* one field
      << <<"rep1">>, <<"G1", "p1">>, <<"x">> >>,          \* three fields
      << <<"rep1">>, <<"G1p1">> >>,                       \* member without '~'
      << <<"rep1">>, <<"G1", "p1", "x">> >>,              \* member with two '~'
      << EmptyField >>,                                   \* blank line
      << EmptyField, <<"rep1">>, <<"G1", "p1">> >> }      \* leading tab

LineAlphabet == WellFormedLines \cup OddLines

SeqsUpTo(S, n) == UNION { [1..k -> S] : k \in 0..n }

(***************************************************************************)
(* parse_cluster_results                                                   *)
(***************************************************************************)

\* line.strip(): leading and trailing whitespace goes, tabs included, so
\* leading and trailing empty fields vanish; the empty string splits into
\* one empty field.
RECURSIVE DropLeadingEmpty(_)
DropLeadingEmpty(fs) ==
    IF fs = <<>> THEN <<>>
    ELSE IF Head(fs) = EmptyField THEN DropLeadingEmpty(Tail(fs))
    ELSE fs

RECURSIVE DropTrailingEmpty(_)
DropTrailingEmpty(fs) ==
    IF fs = <<>> THEN <<>>
    ELSE IF fs[Len(fs)] = EmptyField THEN DropTrailingEmpty(SubSeq(fs, 1, Len(fs) - 1))
    ELSE fs

StripSplitTab(line) ==
    LET kept == DropTrailingEmpty(DropLeadingEmpty(line))
    IN  IF kept = <<>> THEN << EmptyField >> ELSE kept

\* cluster_id, member = ... : unpacking needs exactly two values
UnpacksToTwo(s) == Len(s) = 2

\* "cluster_%i" % counter
ClusterName(c) == <<"cluster_", c>>

InitialCounter == 0

NextCounterSkip(c) == c + 2
NextCounterStuck(c) == c
\* counter += 1
NextCounter(c) == c + 1

SameClusterNever(cluster_id, previous) == FALSE
\* cluster_id == previous_cluster_name
SameCluster(cluster_id, previous) == cluster_id = previous

AddMintedForgotten(ids, c) == ids
\* cluster_ids.add("cluster_%i" % counter)
AddMinted(ids, c) == ids \cup {ClusterName(c)}

HasGenomeAlways(names, genome_id) == TRUE
\* genome_dictionary[genome_id] finds a Genome
HasGenome(names, genome_id) == genome_id \in names

WriteRowFirst(out, genome_id, sequence_id, c) ==
    << <<genome_id, sequence_id, ClusterName(c)>> >> \o out
\* out_io.write('\t'.join([genome_id, sequence_id, "cluster_%i" % counter]) + '\n')
WriteRow(out, genome_id, sequence_id, c) ==
    Append(out, <<genome_id, sequence_id, ClusterName(c)>>)

\* The locals of parse_cluster_results before the loop.
ParseStart ==
    [ counter               |-> InitialCounter,
      previous_cluster_name |-> NoneValue,
      cluster_ids           |-> {},
      calls                 |-> <<>>,
      out                   |-> <<>>,
      exc                   |-> "None",
      exc_line              |-> <<>> ]

\* One iteration of the for loop on `line`, with genome_dictionary's keys `names`.
ProcessLine(st, line, names) ==
    LET fields == StripSplitTab(line) IN
    IF ~UnpacksToTwo(fields)
    THEN [st EXCEPT !.exc = "ValueError"]
    ELSE
    LET cluster_id == fields[1]
        member     == fields[2]
    IN
    IF ~UnpacksToTwo(member)
    THEN [st EXCEPT !.exc = "ValueError"]
    ELSE
    LET genome_id   == member[1]
        sequence_id == member[2]
    IN
    IF SameCluster(cluster_id, st.previous_cluster_name)
    THEN IF ~HasGenome(names, genome_id)
         THEN [st EXCEPT !.exc = "KeyError"]
         ELSE [st EXCEPT
                 !.calls = Append(@, <<genome_id, sequence_id, ClusterName(st.counter)>>),
                 !.out   = WriteRow(@, genome_id, sequence_id, st.counter)]
    ELSE LET c == NextCounter(st.counter)
             minted == [st EXCEPT !.counter = c,
                                  !.previous_cluster_name = cluster_id,
                                  !.cluster_ids = AddMinted(@, c)]
         IN  IF ~HasGenome(names, genome_id)
             THEN [minted EXCEPT !.exc = "KeyError"]
             ELSE [minted EXCEPT
                     !.calls = Append(@, <<genome_id, sequence_id, ClusterName(c)>>),
                     !.out   = WriteRow(@, genome_id, sequence_id, c)]

Locals ==
    [ counter               |-> counter,
      previous_cluster_name |-> previous_cluster_name,
      cluster_ids           |-> cluster_ids,
      calls                 |-> add_cluster_calls,
      out                   |-> out_io,
      exc                   |-> exc,
      exc_line              |-> exc_line ]

SetLocals(st) ==
    /\ counter' = st.counter
    /\ previous_cluster_name' = st.previous_cluster_name
    /\ cluster_ids' = st.cluster_ids
    /\ add_cluster_calls' = st.calls
    /\ out_io' = st.out
    /\ exc' = st.exc
    /\ exc_line' = st.exc_line

\* for line in open(cluster_output_path): one iteration
ReadLine ==
    /\ pc = "loop"
    /\ pos <= Len(lines)
    /\ LET st == ProcessLine(Locals, lines[pos], GenomeNames) IN
       /\ SetLocals(st)
       /\ IF st.exc = "None"
          THEN pos' = pos + 1 /\ pc' = "loop"
          ELSE pos' = pos /\ pc' = "raised"
    /\ UNCHANGED <<lines, run, first_run, doVars, diamondVars, hmmVars, parserVars>>

\* the file is exhausted: the with block closes out_io
EndOfFile ==
    /\ pc = "loop"
    /\ pos > Len(lines)
    /\ pc' = "embed"
    /\ UNCHANGED <<lines, pos, counter, previous_cluster_name, cluster_ids,
                   add_cluster_calls, out_io, exc, exc_line, run, first_run, doVars, diamondVars, hmmVars, parserVars>>

\* import IPython ; IPython.embed() and then return cluster_ids; the import
\* fails where IPython is not installed.
EmbedAndReturn ==
    /\ pc = "embed"
    /\ \/ pc' = "returned" /\ exc' = exc
       \/ pc' = "raised" /\ exc' = "ImportError"
    /\ UNCHANGED <<lines, pos, counter, previous_cluster_name, cluster_ids,
                   add_cluster_calls, out_io, exc_line, run, first_run, doVars, diamondVars, hmmVars, parserVars>>

SetLocalsInit ==
    /\ counter = ParseStart.counter
    /\ previous_cluster_name = ParseStart.previous_cluster_name
    /\ cluster_ids = ParseStart.cluster_ids
    /\ add_cluster_calls = ParseStart.calls
    /\ out_io = ParseStart.out
    /\ exc = ParseStart.exc
    /\ exc_line = ParseStart.exc_line

DoIdle ==
    /\ enabled = [v \in {"hypothetical", "ko", "pfam", "tigrfam"} |-> FALSE]
    /\ genomes_list = <<>>
    /\ do_pc = "idle"
    /\ events = <<>>

DiamondIdle ==
    /\ thresholds = [t \in {"evalue", "bit", "id", "aln_query", "aln_reference"} |-> <<>>]
    /\ cmd = <<>>
    /\ dpc = "idle"

HmmIdle ==
    /\ hmm_cmd = <<>>
    /\ hmm_log = <<>>
    /\ hpc = "idle"

\* An empty dict.
EmptyDict == [k \in {} |-> {}]

ParserIdle ==
    /\ p_lines = <<>>
    /\ p_header = <<>>
    /\ p_pos = 1
    /\ p_pc = "idle"
    /\ p_exc = "None"
    /\ p_exc_line = <<>>
    /\ headers = <<>>
    /\ genome_to_annotation_sets = EmptyDict
    /\ cols_to_rows = EmptyDict
    /\ nr_values = {}
    /\ attribute_dict = EmptyDict

ClusterIdle ==
    /\ lines = <<>>
    /\ pos = 1
    /\ SetLocalsInit
    /\ pc = "idle"
    /\ run = 1
    /\ first_run = ParseStart

InitCluster ==
    /\ lines \in SeqsUpTo(LineAlphabet, MaxLines)
    /\ pos = 1
    /\ SetLocalsInit
    /\ pc = "loop"
    /\ run = 1
    /\ first_run = ParseStart
    /\ DoIdle
    /\ DiamondIdle
    /\ HmmIdle
    /\ ParserIdle

NextCluster == ReadLine \/ EndOfFile \/ EmbedAndReturn

\* The alphabet of the files that are parsed twice.
RerunAlphabet == WellFormedLines \cup { << <<"rep1">> >> }

EnterLocalsKeepCounter(old) == [ParseStart EXCEPT !.counter = old.counter]
\* cluster_ids, previous_cluster_name and counter are locals, bound afresh by
\* every call; `old` is what the call before left in them.
EnterLocals(old) == ParseStart

\* a second parse_cluster_results(cluster_output_path, ...) on the same
\* Annotate instance, after the first returned or raised
CallAgain ==
    /\ pc \in {"returned", "raised"}
    /\ run = 1
    /\ run' = 2
    /\ first_run' = Locals
    /\ SetLocals(EnterLocals(Locals))
    /\ pos' = 1
    /\ pc' = "loop"
    /\ UNCHANGED <<lines, doVars, diamondVars, hmmVars, parserVars>>

InitRerun ==
    /\ lines \in SeqsUpTo(RerunAlphabet, MaxLines)
    /\ pos = 1
    /\ SetLocalsInit
    /\ pc = "loop"
    /\ run = 1
    /\ first_run = ParseStart
    /\ DoIdle
    /\ DiamondIdle
    /\ HmmIdle
    /\ ParserIdle

NextRerun == ReadLine \/ EndOfFile \/ EmbedAndReturn \/ CallAgain

SpecRerun == InitRerun /\ [][NextRerun]_vars

SpecCluster == InitCluster /\ [][NextCluster]_vars

(***************************************************************************)
(* do                                                                      *)
(***************************************************************************)
MaxDoLines == 2

Vocabularies == {"hypothetical", "ko", "pfam", "tigrfam"}

\* genomes_list as the four input branches of do can build it
GenomeLists == { <<>>, <<"G1">>, <<"G1", "G2">> }

\* which of protein_directory, protein_files, genome_directory, genome_files
\* is given; with none genomes_list is never bound
InputKinds == {"protein_directory", "protein_files", "genome_directory",
               "genome_files", "none"}

Range(f) == { f[i] : i \in DOMAIN f }

\* the files os.listdir finds in an annotation directory: results for some
\* of the genomes, in any order
Listings(names) ==
    { l \in SeqsUpTo(names, Cardinality(names)) :
        \A i, j \in 1..Len(l) : i # j => l[i] # l[j] }

\* parse_cluster_results run to its end on `file`
RECURSIVE RunParseFrom(_, _, _)
RunParseFrom(st, file, names) ==
    IF file = <<>> \/ st.exc # "None" THEN st
    ELSE RunParseFrom(ProcessLine(st, Head(file), names), Tail(file), names)

ParseClusterResults(file, names) == RunParseFrom(ParseStart, file, names)

AddClusterEvent(call) ==
    [op |-> "add_cluster", genome |-> call[1], vocab |-> "hypothetical"]
AddEvent(g, v)     == [op |-> "add", genome |-> g, vocab |-> v]
WriteMatrixEvent(v) == [op |-> "write_matrix", genome |-> "*", vocab |-> v]
ReadEvent(o)       == [op |-> o, genome |-> "*", vocab |-> "none"]

\* genome.add for each genome in `order`, tagged with AnnotationParser's type
AddEvents(order, v) == [i \in 1..Len(order) |-> AddEvent(order[i], v)]

\* the body of `if self.hypothetical:` when parse_cluster_results returns
HypotheticalBlock(calls) ==
    [i \in 1..Len(calls) |-> AddClusterEvent(calls[i])] \o <<WriteMatrixEvent("hypothetical")>>

KoBlockMatrixFirst(gl) == <<WriteMatrixEvent("ko")>> \o AddEvents(gl, "ko")
\* the body of `if self.ko:`: annotate_ko, then write_matrix
KoBlock(gl) == AddEvents(gl, "ko") \o <<WriteMatrixEvent("ko")>>

\* the body of `if self.pfam:`: annotate_pfam, then write_matrix
PfamBlock(listed) == AddEvents(listed, "pfam") \o <<WriteMatrixEvent("pfam")>>

\* the body of `if self.tigrfam:`: annotate_tigrfam, then write_matrix
TigrfamBlock(listed) == AddEvents(listed, "tigrfam") \o <<WriteMatrixEvent("tigrfam")>>

\* the if/elif chain that builds genomes_list, and the check of its length
DoSetup ==
    /\ do_pc = "setup"
    /\ \E kind \in InputKinds, gl \in GenomeLists :
          IF kind = "none"
          THEN genomes_list' = genomes_list /\ do_pc' = "raised"
          ELSE /\ genomes_list' = gl
               /\ do_pc' = IF Len(gl) = 0 THEN "done" ELSE "hypothetical"
    /\ UNCHANGED <<enabled, events, clusterVars, diamondVars, hmmVars, parserVars>>

\* if self.hypothetical: annotate_hypothetical, MatrixGenerator, write_matrix
DoHypothetical ==
    /\ do_pc = "hypothetical"
    /\ \/ /\ ~enabled["hypothetical"]
          /\ do_pc' = "ko"
          /\ events' = events
       \/ /\ enabled["hypothetical"]
          /\ \E file \in SeqsUpTo(LineAlphabet, MaxDoLines), ipython \in BOOLEAN :
                LET r == ParseClusterResults(file, Range(genomes_list)) IN
                IF r.exc # "None" \/ ~ipython
                THEN /\ events' = events \o [i \in 1..Len(r.calls) |-> AddClusterEvent(r.calls[i])]
                     /\ do_pc' = "raised"
                ELSE /\ events' = events \o HypotheticalBlock(r.calls)
                     /\ do_pc' = "ko"
    /\ UNCHANGED <<enabled, genomes_list, clusterVars, diamondVars, hmmVars, parserVars>>

\* if self.ko: annotate_ko, MatrixGenerator, write_matrix
DoKo ==
    /\ do_pc = "ko"
    /\ \/ /\ ~enabled["ko"]
          /\ events' = events
       \/ /\ enabled["ko"]
          /\ events' = events \o KoBlock(genomes_list)
    /\ do_pc' = "pfam"
    /\ UNCHANGED <<enabled, genomes_list, clusterVars, diamondVars, hmmVars, parserVars>>

\* if self.pfam: annotate_pfam, MatrixGenerator, write_matrix
DoPfam ==
    /\ do_pc = "pfam"
    /\ \/ /\ ~enabled["pfam"]
          /\ events' = events
       \/ /\ enabled["pfam"]
          /\ \E listed \in Listings(Range(genomes_list)) :
                events' = events \o PfamBlock(listed)
    /\ do_pc' = "tigrfam"
    /\ UNCHANGED <<enabled, genomes_list, clusterVars, diamondVars, hmmVars, parserVars>>

\* if self.tigrfam: annotate_tigrfam, MatrixGenerator, write_matrix
DoTigrfam ==
    /\ do_pc = "tigrfam"
    /\ \/ /\ ~enabled["tigrfam"]
          /\ events' = events
       \/ /\ enabled["tigrfam"]
          /\ \E listed \in Listings(Range(genomes_list)) :
                events' = events \o TigrfamBlock(listed)
    /\ do_pc' = "finish"
    /\ UNCHANGED <<enabled, genomes_list, clusterVars, diamondVars, hmmVars, parserVars>>

\* _generate_gff_files, and what follows it, only read the genomes
DoFinish ==
    /\ do_pc = "finish"
    /\ events' = Append(events, ReadEvent("generate_gff_files"))
    /\ do_pc' = "done"
    /\ UNCHANGED <<enabled, genomes_list, clusterVars, diamondVars, hmmVars, parserVars>>

InitDo ==
    /\ enabled \in [Vocabularies -> BOOLEAN]
    /\ genomes_list = <<>>
    /\ do_pc = "setup"
    /\ events = <<>>
    /\ ClusterIdle
    /\ DiamondIdle
    /\ HmmIdle
    /\ ParserIdle

NextDo == DoSetup \/ DoHypothetical \/ DoKo \/ DoPfam \/ DoTigrfam \/ DoFinish

SpecDo == InitDo /\ [][NextDo]_vars

(***************************************************************************)
(* _diamond_search                                                         *)
(***************************************************************************)
ThresholdNames == {"evalue", "bit", "id", "aln_query", "aln_reference"}

\* A number is held in units of one ten-millionth; an attribute is <<>> for
\* None and <<v>> for the number v.
One == 10000000
NumberValues == {0, 3, One \div 2, One}
AttributeValues == {<<>>} \cup { <<v>> : v \in NumberValues }

\* `if self.x:` : None and 0 are both false
Truthy(a) == a # <<>> /\ a[1] # 0

\* '%f' % x : six decimals, so the result is in millionths of one
FormatF(v) == (v + 5) \div 10

\* self.aln_query * 100
Percent == 100

\* the option each attribute adds, with the value formatted into the command
OptionOf(t, v) ==
    CASE t = "evalue"        -> <<"--evalue", FormatF(v)>>
      [] t = "bit"           -> <<"--min-score", FormatF(v)>>
      [] t = "id"            -> <<"--id", FormatF(v)>>
      [] t = "aln_query"     -> <<"--query-cover", FormatF(v * Percent)>>
      [] t = "aln_reference" -> <<"--subject-cover", FormatF(v * Percent)>>

\* if self.<t>: cmd += ...
AppendOption(t, from, to) ==
    /\ dpc = from
    /\ cmd' = IF Truthy(thresholds[t])
              THEN Append(cmd, OptionOf(t, thresholds[t][1]))
              ELSE cmd
    /\ dpc' = to
    /\ UNCHANGED <<thresholds, clusterVars, doVars, hmmVars, parserVars>>

AppendEvalue       == AppendOption("evalue", "evalue", "bit")
AppendBit          == AppendOption("bit", "bit", "id")
AppendId           == AppendOption("id", "id", "aln_query")
AppendAlnQuery     == AppendOption("aln_query", "aln_query", "aln_reference")
AppendAlnReference == AppendOption("aln_reference", "aln_reference", "call")

\* subprocess.call(cmd, shell = True)
CallDiamond ==
    /\ dpc = "call"
    /\ dpc' = "called"
    /\ UNCHANGED <<thresholds, cmd, clusterVars, doVars, hmmVars, parserVars>>

InitDiamond ==
    /\ thresholds \in [ThresholdNames -> AttributeValues]
    /\ cmd = <<>>
    /\ dpc = "evalue"
    /\ ClusterIdle
    /\ DoIdle
    /\ HmmIdle
    /\ ParserIdle

NextDiamond ==
    AppendEvalue \/ AppendBit \/ AppendId \/ AppendAlnQuery \/ AppendAlnReference
        \/ CallDiamond

SpecDiamond == InitDiamond /\ [][NextDiamond]_vars

(***************************************************************************)
(* _hmm_search                                                             *)
(***************************************************************************)
\* the option an attribute adds to the hmmsearch command
HmmOptionOf(t, v) ==
    CASE t = "evalue" -> <<"-E", FormatF(v)>>
      [] t = "bit"    -> <<"-T", FormatF(v)>>

IdWarning == "--id flag not used for hmmsearch"

\* if self.evalue: cmd += '-E %f ' % (self.evalue)
HmmAppendEvalue ==
    /\ hpc = "evalue"
    /\ hmm_cmd' = IF Truthy(thresholds["evalue"])
                  THEN Append(hmm_cmd, HmmOptionOf("evalue", thresholds["evalue"][1]))
                  ELSE hmm_cmd
    /\ hpc' = "bit"
    /\ UNCHANGED <<hmm_log, thresholds, cmd, dpc, clusterVars, doVars, parserVars>>

\* if self.bit: cmd += '-T %f ' % (self.bit)
HmmAppendBit ==
    /\ hpc = "bit"
    /\ hmm_cmd' = IF Truthy(thresholds["bit"])
                  THEN Append(hmm_cmd, HmmOptionOf("bit", thresholds["bit"][1]))
                  ELSE hmm_cmd
    /\ hpc' = "id"
    /\ UNCHANGED <<hmm_log, thresholds, cmd, dpc, clusterVars, doVars, parserVars>>

\* if self.id: logging.warning(...)
HmmWarnId ==
    /\ hpc = "id"
    /\ hmm_log' = IF Truthy(thresholds["id"]) THEN Append(hmm_log, IdWarning) ELSE hmm_log
    /\ hpc' = "call"
    /\ UNCHANGED <<hmm_cmd, thresholds, cmd, dpc, clusterVars, doVars, parserVars>>

\* cmd += database and input; subprocess.call(cmd, shell = True)
HmmCall ==
    /\ hpc = "call"
    /\ hpc' = "called"
    /\ UNCHANGED <<hmm_cmd, hmm_log, thresholds, cmd, dpc, clusterVars, doVars, parserVars>>

InitHmm ==
    /\ thresholds \in [ThresholdNames -> AttributeValues]
    /\ cmd = <<>>
    /\ dpc = "idle"
    /\ hmm_cmd = <<>>
    /\ hmm_log = <<>>
    /\ hpc = "evalue"
    /\ ClusterIdle
    /\ DoIdle
    /\ ParserIdle

NextHmm == HmmAppendEvalue \/ HmmAppendBit \/ HmmWarnId \/ HmmCall

SpecHmm == InitHmm /\ [][NextHmm]_vars

(***************************************************************************)
(* Parser.parse_genome_and_annotation_file_lf                              *)
(***************************************************************************)
LfGenomes     == {<<"G1">>, <<"G2">>}
LfAnnotations == {<<"K1">>, <<"K2">>}

LfAlphabet ==
    { <<g, a>> : g \in LfGenomes, a \in LfAnnotations }
    \cup { << <<"G1">> >>,                              \* one field
           << <<"G1">>, <<"K1">>, <<"x">> >>,           \* three fields
           << EmptyField >>,                            \* blank line
           << EmptyField, <<"G1">>, <<"K1">> >> }       \* leading tab

DictAddToSetOverwrite(d, k, v) ==
    [x \in DOMAIN d \cup {k} |-> IF x = k THEN {v} ELSE d[x]]
\* if k not in d: d[k] = set()   and then   d[k].add(v)
DictAddToSet(d, k, v) ==
    [x \in DOMAIN d \cup {k} |->
        IF x = k THEN (IF k \in DOMAIN d THEN d[k] ELSE {}) \cup {v} ELSE d[x]]

\* one iteration of the for loop: split in a try, raise Exception with the
\* line on any failure, else add the annotation to the genome's set
LfReadLine ==
    /\ p_pc = "lf_loop"
    /\ p_pos <= Len(p_lines)
    /\ LET line   == p_lines[p_pos]
           fields == StripSplitTab(line)
       IN  IF ~UnpacksToTwo(fields)
           THEN /\ p_pc' = "raised"
                /\ p_exc' = "Exception"
                /\ p_exc_line' = <<line>>
                /\ UNCHANGED <<p_pos, genome_to_annotation_sets>>
           ELSE /\ genome_to_annotation_sets' =
                      DictAddToSet(genome_to_annotation_sets, fields[1], fields[2])
                /\ p_pos' = p_pos + 1
                /\ UNCHANGED <<p_pc, p_exc, p_exc_line>>
    /\ UNCHANGED <<p_lines, p_header, headers, cols_to_rows, nr_values, attribute_dict,
                   clusterVars, doVars, diamondVars, hmmVars>>

\* return genome_to_annotation_sets
LfReturn ==
    /\ p_pc = "lf_loop"
    /\ p_pos > Len(p_lines)
    /\ p_pc' = "returned"
    /\ UNCHANGED <<p_lines, p_header, p_pos, p_exc, p_exc_line, headers,
                   genome_to_annotation_sets, cols_to_rows, nr_values, attribute_dict,
                   clusterVars, doVars, diamondVars, hmmVars>>

\* The parser's locals before any line is read.
ParserStart ==
    /\ p_pos = 1
    /\ p_exc = "None"
    /\ p_exc_line = <<>>
    /\ headers = <<>>
    /\ genome_to_annotation_sets = EmptyDict
    /\ cols_to_rows = EmptyDict
    /\ nr_values = {}
    /\ attribute_dict = EmptyDict
    /\ ClusterIdle
    /\ DoIdle
    /\ DiamondIdle
    /\ HmmIdle

InitLf ==
    /\ p_lines \in SeqsUpTo(LfAlphabet, MaxLines)
    /\ p_header = <<>>
    /\ p_pc = "lf_loop"
    /\ ParserStart

NextLf == LfReadLine \/ LfReturn

SpecLf == InitLf /\ [][NextLf]_vars

(***************************************************************************)
(* Parser.parse_genome_and_annotation_file_matrix                          *)
(***************************************************************************)
MaxRows == 2

\* what the first column's header may be: empty, or "ID"
FirstHeaders == {EmptyField, <<"ID">>}

MatrixGenomeLists == { << <<"G1">> >>, << <<"G1">>, <<"G2">> >> }

CellTexts == {<<"0">>, <<"1">>}

\* the table's rows for n genomes: an annotation and n cells; one row has a
\* cell that is no number
MatrixRows(n) ==
    { <<a>> \o cells : a \in LfAnnotations, cells \in [1..n -> CellTexts] }
    \cup { <<<<"K1">>>> \o [k \in 1..n |-> <<"x">>] }

\* float(entry) succeeds
IsNumber(entry) == entry \in {<<"0">>, <<"1">>, <<"2">>}

\* float(entry)
FloatOf(entry) ==
    CASE entry = <<"0">> -> 0
      [] entry = <<"1">> -> 1
      [] entry = <<"2">> -> 2

\* list[1:]
DropFirst(l) == IF l = <<>> THEN <<>> ELSE Tail(l)

Min(a, b) == IF a < b THEN a ELSE b

\* headers = readline().strip().split('\t')[1:] and the dict of empty sets
MatrixReadHeader ==
    /\ p_pc = "header"
    /\ LET hs == DropFirst(StripSplitTab(p_header)) IN
       /\ headers' = hs
       /\ genome_to_annotation_sets' = [g \in Range(hs) |-> {}]
    /\ p_pc' = "matrix_loop"
    /\ UNCHANGED <<p_lines, p_header, p_pos, p_exc, p_exc_line, cols_to_rows, nr_values,
                   attribute_dict, clusterVars, doVars, diamondVars, hmmVars>>

\* one row: for genome_name, entry in zip(headers, entries), add the
\* annotation where float(entry) > 0; float raises ValueError on other text
MatrixReadLine ==
    /\ p_pc = "matrix_loop"
    /\ p_pos <= Len(p_lines)
    /\ LET sline      == StripSplitTab(p_lines[p_pos])
           annotation == sline[1]
           entries    == DropFirst(sline)
           zipped     == 1..Min(Len(headers), Len(entries))
           bad        == { k \in zipped : ~IsNumber(entries[k]) }
           reached    == IF bad = {} THEN zipped
                         ELSE { k \in zipped : \A b \in bad : k < b }
       IN  /\ genome_to_annotation_sets' =
                 [g \in DOMAIN genome_to_annotation_sets |->
                     genome_to_annotation_sets[g] \cup
                       (IF \E k \in reached : headers[k] = g /\ FloatOf(entries[k]) > 0
                        THEN {annotation} ELSE {})]
           /\ IF bad = {}
              THEN p_pos' = p_pos + 1 /\ UNCHANGED <<p_pc, p_exc>>
              ELSE p_pos' = p_pos /\ p_pc' = "raised" /\ p_exc' = "ValueError"
    /\ UNCHANGED <<p_lines, p_header, p_exc_line, headers, cols_to_rows, nr_values,
                   attribute_dict, clusterVars, doVars, diamondVars, hmmVars>>

\* return genome_to_annotation_sets
MatrixReturn ==
    /\ p_pc = "matrix_loop"
    /\ p_pos > Len(p_lines)
    /\ p_pc' = "returned"
    /\ UNCHANGED <<p_lines, p_header, p_pos, p_exc, p_exc_line, headers,
                   genome_to_annotation_sets, cols_to_rows, nr_values, attribute_dict,
                   clusterVars, doVars, diamondVars, hmmVars>>

InitMatrix ==
    /\ \E first \in FirstHeaders, gl \in MatrixGenomeLists :
          /\ p_header = <<first>> \o gl
          /\ p_lines \in SeqsUpTo(MatrixRows(Len(gl)), MaxRows)
    /\ p_pc = "header"
    /\ ParserStart

NextMatrix == MatrixReadHeader \/ MatrixReadLine \/ MatrixReturn

SpecMatrix == InitMatrix /\ [][NextMatrix]_vars

(***************************************************************************)
(* Parser.parse_metadata_matrix                                            *)
(***************************************************************************)
MetaRownames == {<<"r1">>, <<"r2">>}
MetaEntries  == {<<"e1">>, <<"e2">>}

MetaAlphabet ==
    { <<r, e>> : r \in MetaRownames, e \in MetaEntries }
    \cup { << <<"r1">> >>,                              \* one field
           << EmptyField, <<"r1">>, <<"e1">> >> }       \* leading tab

AddAttributeOverwrite(d, entry, rowname) == DictAddToSetOverwrite(d, entry, rowname)
\* if entry in attribute_dict: attribute_dict[entry].add(rowname)
\* else: attribute_dict[entry] = set([rowname])
AddAttribute(d, entry, rowname) == DictAddToSet(d, entry, rowname)

\* if rowname not in cols_to_rows: cols_to_rows[rowname] = set([entry])
\* else: cols_to_rows[rowname].add(entry)
AddColToRow(d, rowname, entry) == DictAddToSet(d, rowname, entry)

\* one iteration of the for loop; the unpacking raises ValueError
MetaReadLine ==
    /\ p_pc = "meta_loop"
    /\ p_pos <= Len(p_lines)
    /\ LET fields == StripSplitTab(p_lines[p_pos]) IN
       IF ~UnpacksToTwo(fields)
       THEN /\ p_pc' = "raised"
            /\ p_exc' = "ValueError"
            /\ UNCHANGED <<p_pos, nr_values, attribute_dict, cols_to_rows>>
       ELSE LET rowname == fields[1]
                entry   == fields[2]
            IN  /\ nr_values' = nr_values \cup {entry}
                /\ attribute_dict' = AddAttribute(attribute_dict, entry, rowname)
                /\ cols_to_rows' = AddColToRow(cols_to_rows, rowname, entry)
                /\ p_pos' = p_pos + 1
                /\ UNCHANGED <<p_pc, p_exc>>
    /\ UNCHANGED <<p_lines, p_header, p_exc_line, headers, genome_to_annotation_sets,
                   clusterVars, doVars, diamondVars, hmmVars>>

\* return cols_to_rows, nr_values, attribute_dict
MetaReturn ==
    /\ p_pc = "meta_loop"
    /\ p_pos > Len(p_lines)
    /\ p_pc' = "returned"
    /\ UNCHANGED <<p_lines, p_header, p_pos, p_exc, p_exc_line, headers,
                   genome_to_annotation_sets, cols_to_rows, nr_values, attribute_dict,
                   clusterVars, doVars, diamondVars, hmmVars>>

InitMetadata ==
    /\ p_lines \in SeqsUpTo(MetaAlphabet, MaxLines)
    /\ p_header = <<>>
    /\ p_pc = "meta_loop"
    /\ ParserStart

NextMetadata == MetaReadLine \/ MetaReturn

SpecMetadata == InitMetadata /\ [][NextMetadata]_vars

(***************************************************************************)
(* Properties of parse_cluster_results                                     *)
(***************************************************************************)

\* Rows that went through the loop body to the end (add_cluster and write).
Processed == Len(add_cluster_calls)

\* What the code reads on line i as cluster key and as member.
KeyAt(i)    == StripSplitTab(lines[i])[1]
MemberAt(i) == StripSplitTab(lines[i])[2]

IdOf(call)  == call[3]
NumOf(call) == call[3][2]

\* Row i starts a run of equal keys.
BoundaryAt(i) == i = 1 \/ KeyAt(i) # KeyAt(i - 1)

\* The processed rows are contiguous by cluster key.
Grouped ==
    \A i, j, k \in 1..Processed :
        (i < j /\ j < k /\ KeyAt(i) = KeyAt(k)) => KeyAt(j) = KeyAt(i)

\* The number of distinct keys among rows 1..i: row i's key is the
\* KeyRank(i)-th distinct key in first-seen order when the rows are grouped.
KeyRank(i) == Cardinality({ KeyAt(j) : j \in 1..i })

\* C1: on grouped input every member of the k-th distinct cluster key is
\* given exactly cluster_k, whatever its genome, and none is given cluster_0.
C1_SequentialGlobalIds ==
    Grouped =>
        \A i \in 1..Processed :
            /\ IdOf(add_cluster_calls[i]) = ClusterName(KeyRank(i))
            /\ IdOf(add_cluster_calls[i]) # ClusterName(0)

C1_Witness ==
    /\ pc = "returned"
    /\ Grouped
    /\ Processed = 3
    /\ add_cluster_calls[1] = <<"G1", "p1", ClusterName(1)>>
    /\ add_cluster_calls[2] = <<"G1", "p2", ClusterName(1)>>
    /\ add_cluster_calls[3] = <<"G2", "p1", ClusterName(2)>>

\* C2: on grouped input two members have the same cluster identifier exactly
\* when they have the same raw cluster key.
C2_SameKeySameId ==
    Grouped =>
        \A i, j \in 1..Processed :
            (KeyAt(i) = KeyAt(j)) <=>
                (IdOf(add_cluster_calls[i]) = IdOf(add_cluster_calls[j]))

C2_Witness ==
    /\ Grouped
    /\ \E i, j, k \in 1..Processed :
          /\ i < j /\ j < k
          /\ KeyAt(i) = KeyAt(j) /\ KeyAt(j) # KeyAt(k)
          /\ MemberAt(i) # MemberAt(j)

\* C3: for any input order, a row whose key differs from the row before it
\* (and the first row) gets an identifier numbered above every identifier
\* given before; a key that comes back gets a fresh identifier.
C3_MintsStrictlyIncrease ==
    /\ \A i \in 1..Processed :
          BoundaryAt(i) =>
              \A j \in 1..(i - 1) :
                  NumOf(add_cluster_calls[i]) > NumOf(add_cluster_calls[j])
    /\ \A c \in cluster_ids : c[2] <= counter

C3_Witness ==
    /\ ~Grouped
    /\ Processed = 3
    /\ KeyAt(1) = KeyAt(3)
    /\ NumOf(add_cluster_calls[3]) = 3

\* C4: the returned set is exactly the set of identifiers passed to
\* add_cluster, and for n key boundaries it is {cluster_1, ..., cluster_n}.
C4_ReturnedSetIsAssignedIds ==
    pc = "returned" =>
        /\ cluster_ids = { IdOf(add_cluster_calls[i]) : i \in 1..Processed }
        /\ cluster_ids =
             { ClusterName(k) :
                 k \in 1..Cardinality({ i \in 1..Len(lines) : BoundaryAt(i) }) }

C4_Witness ==
    /\ pc = "returned"
    /\ Processed = 3
    /\ cluster_ids = {ClusterName(1), ClusterName(2)}

\* C5: the membership file holds one (genome, protein, cluster id) row per
\* processed input row, in input order, each with the identifier passed to
\* add_cluster for that member.
C5_OneRowPerMemberInOrder ==
    /\ Len(out_io) = pos - 1
    /\ out_io = add_cluster_calls
    /\ \A i \in 1..Len(out_io) :
          /\ out_io[i][1] = MemberAt(i)[1]
          /\ out_io[i][2] = MemberAt(i)[2]

C5_Witness ==
    /\ pc = "returned"
    /\ Len(out_io) = 3
    /\ out_io[1][1] # out_io[2][1]
    /\ out_io[2][3] # out_io[3][3]

\* C6: no (genome, protein) member is given two different cluster
\* identifiers, neither through add_cluster nor in the written rows.
C6_OneClusterPerMember ==
    /\ \A i, j \in 1..Len(add_cluster_calls) :
          (add_cluster_calls[i][1] = add_cluster_calls[j][1]
             /\ add_cluster_calls[i][2] = add_cluster_calls[j][2])
          => add_cluster_calls[i][3] = add_cluster_calls[j][3]
    /\ \A i, j \in 1..Len(out_io) :
          (out_io[i][1] = out_io[j][1] /\ out_io[i][2] = out_io[j][2])
          => out_io[i][3] = out_io[j][3]

\* Line i reads as (key, genome~protein) with a genome outside genomes_list.
UnknownGenomeAt(i) ==
    /\ UnpacksToTwo(StripSplitTab(lines[i]))
    /\ UnpacksToTwo(MemberAt(i))
    /\ MemberAt(i)[1] \notin GenomeNames

\* C7: a row naming a genome outside the genome list ends the run with a
\* KeyError: no add_cluster call and no output row names such a genome, no
\* row at or after it is processed, and nothing is returned.
C7_UnknownGenomeIsFatal ==
    /\ \A i \in 1..Len(add_cluster_calls) : add_cluster_calls[i][1] \in GenomeNames
    /\ \A i \in 1..Len(out_io) : out_io[i][1] \in GenomeNames
    /\ \A i \in 1..Len(lines) :
          UnknownGenomeAt(i) =>
              /\ pos <= i
              /\ Len(add_cluster_calls) < i
              /\ Len(out_io) < i
              /\ pc \notin {"embed", "returned"}
              /\ (pc = "raised" /\ pos = i) => exc = "KeyError"

C7_Witness ==
    /\ pc = "raised"
    /\ exc = "KeyError"
    /\ pos = 2
    /\ Len(lines) = 3
    /\ UnknownGenomeAt(2)
    /\ Len(add_cluster_calls) = 1
    /\ Len(out_io) = 1

\* The line does not have exactly two tab-separated fields, or its member
\* is not exactly genome~protein.
MalformedAt(i) ==
    \/ Len(lines[i]) # 2
    \/ Len(lines[i][2]) # 2

\* C8: a malformed line ends the run on that line with an error carrying the
\* line's content; the line is never skipped and no later line is processed.
C8_MalformedLineIsFatalWithContent ==
    \A i \in 1..Len(lines) :
        MalformedAt(i) =>
            /\ pos <= i
            /\ pc \notin {"embed", "returned"}
            /\ (pc = "raised" /\ pos = i) => exc_line = <<lines[i]>>

Mutates(e) == e.op \in {"add", "add_cluster"}

\* C9 as stated: once the first write_matrix call is made, no annotation
\* step (add or add_cluster) is made on any genome.
C9_ReadOnlyAfterFirstMatrix ==
    \A i, j \in 1..Len(events) :
        (i < j /\ events[i].op = "write_matrix") => ~Mutates(events[j])

\* C9 amended: once a vocabulary's frequency table is written, no
\* annotation step of that vocabulary is made on any genome, and every
\* annotation step of a vocabulary comes before that vocabulary's table.
C9_ReadOnlyAfterOwnMatrix ==
    /\ \A i, j \in 1..Len(events) :
          (i < j /\ events[i].op = "write_matrix" /\ Mutates(events[j]))
              => events[j].vocab # events[i].vocab
    /\ do_pc = "done" =>
          \A j \in 1..Len(events) :
              Mutates(events[j]) =>
                  \E k \in (j + 1)..Len(events) :
                      events[k] = WriteMatrixEvent(events[j].vocab)

C9_Witness ==
    /\ do_pc = "done"
    /\ \E i, j, k \in 1..Len(events) :
          /\ i < j /\ j < k
          /\ events[i] = WriteMatrixEvent("hypothetical")
          /\ events[j] = AddEvent("G2", "ko")
          /\ events[k] = WriteMatrixEvent("ko")
          /\ \E h \in 1..(i - 1) : events[h].op = "add_cluster"

(***************************************************************************)
(* Properties of _diamond_search                                           *)
(***************************************************************************)
FlagOf(t) == OptionOf(t, 0)[1]

FlagsIn(c) == { c[i][1] : i \in 1..Len(c) }

\* C10: in the command that is run, a threshold left at None adds no option
\* and every threshold that is set, 0 included, adds its own option.
C10_UnsetNoneSetAll ==
    dpc = "called" =>
        \A t \in ThresholdNames :
            /\ thresholds[t] = <<>> => FlagOf(t) \notin FlagsIn(cmd)
            /\ thresholds[t] # <<>> => FlagOf(t) \in FlagsIn(cmd)

\* The thresholds given as fractions of one.
FractionThresholds == {"id", "aln_query", "aln_reference"}

\* C11: a fraction f configured for id, aln_query or aln_reference reaches
\* the command as 100*f, for --id as for --query-cover and --subject-cover.
C11_FractionsBecomePercent ==
    dpc = "called" =>
        \A t \in FractionThresholds :
            \A i \in 1..Len(cmd) :
                cmd[i][1] = FlagOf(t) =>
                    cmd[i][2] = FormatF(thresholds[t][1] * Percent)

(***************************************************************************)
(* Properties of _hmm_search                                               *)
(***************************************************************************)
\* the options the search gets from self.evalue and self.bit alone
OptionsWithoutId ==
    (IF Truthy(thresholds["evalue"])
     THEN <<HmmOptionOf("evalue", thresholds["evalue"][1])>> ELSE <<>>)
    \o (IF Truthy(thresholds["bit"])
        THEN <<HmmOptionOf("bit", thresholds["bit"][1])>> ELSE <<>>)

\* C12: with an identity threshold set, the hmmsearch that is run got a
\* warning logged, and its command is the one built from the e-value and
\* bit-score thresholds alone.
C12_IdIsNoOpWithWarning ==
    (hpc = "called" /\ thresholds["id"] # <<>>) =>
        /\ hmm_log = <<IdWarning>>
        /\ hmm_cmd = OptionsWithoutId

(***************************************************************************)
(* Properties of Parser.parse_genome_and_annotation_file_lf                *)
(***************************************************************************)
\* The lines the loop has gone through without raising.
LfDone == 1..(p_pos - 1)

LfSplits(i) == UnpacksToTwo(StripSplitTab(p_lines[i]))

TableGenomes  == { p_header[c] : c \in 2..Len(p_header) }
ColumnOf(g)   == CHOOSE c \in 2..Len(p_header) : p_header[c] = g

\* C15: for a table whose first header is empty or "ID", the result has one
\* key per genome of the header row, and a genome's set holds an annotation
\* exactly when some row of that annotation has a cell above 0 for it.
C15_MatrixKeysAndPositiveCells ==
    p_pc = "returned" =>
        /\ DOMAIN genome_to_annotation_sets = TableGenomes
        /\ \A g \in TableGenomes :
              genome_to_annotation_sets[g] =
                  { p_lines[i][1] :
                      i \in { j \in 1..Len(p_lines) :
                                FloatOf(p_lines[j][ColumnOf(g)]) > 0 } }

(***************************************************************************)
(* Properties of Parser.parse_metadata_matrix                              *)
(***************************************************************************)
\* C16: after any sequence of (rowname, entry) lines, entry is in
\* cols_to_rows[rowname] exactly when rowname is in attribute_dict[entry],
\* and nr_values is the key set of attribute_dict.
C16_ConverseRelations ==
    /\ \A r \in MetaRownames, e \in MetaEntries :
          (r \in DOMAIN cols_to_rows /\ e \in cols_to_rows[r])
              <=> (e \in DOMAIN attribute_dict /\ r \in attribute_dict[e])
    /\ DOMAIN cols_to_rows \subseteq MetaRownames
    /\ DOMAIN attribute_dict \subseteq MetaEntries
    /\ nr_values = DOMAIN attribute_dict

C16_Witness ==
    /\ p_pc = "returned"
    /\ Len(p_lines) = 3
    /\ DOMAIN cols_to_rows = MetaRownames
    /\ cols_to_rows[<<"r1">>] = MetaEntries
    /\ attribute_dict[<<"e1">>] = MetaRownames
    /\ nr_values = MetaEntries

====
